---- MODULE Spec2Model ----
(***************************************************************************)
(* The booking dashboard's client logic: the data fetcher, the poll        *)
(* scheduler and the edit buffer of AdminDashboard, with the server        *)
(* action updateBookings and an abstract backend table.                    *)
(*                                                                         *)
(* The repository holds two versions of AdminDashboard:                    *)
(*   src/app/page.tsx     edit buffer, poll callback awaits its fetch      *)
(*                        (specification Spec)                             *)
(*   src/unnamed/part_001 configuration check, 10 s timeout, retries with  *)
(*                        backoff, no edit buffer                          *)
(*                        (specification SpecRetry)                        *)
(* Both run on the same variables.                                         *)
(*                                                                         *)
(* React is modelled as the code relies on it: a state setter assigns, a   *)
(* closure keeps the values of the render that created it, and an effect   *)
(* whose dependencies changed runs its cleanup and its body again right    *)
(* after the handler that changed them (while the component is mounted).   *)
(***************************************************************************)
EXTENDS Integers, Sequences, FiniteSets, Bags, TLC

\* ------------------------------------------------------------------ domains

\* Booking ids, in the order the bookings are created.
Created == <<"a", "b", "c">>
Ids == {Created[k] : k \in 1..Len(Created)}
\* The options of the two selects of ExpandedBookingDetails.
StatusValues == {"pending", "confirmed", "completed", "cancelled"}
PaymentValues == {"Not Paid", "Paid", "Refunded", "Partial"}
Fields == {"status", "payment_status"}
\* An optional field that is absent from an object.
Undefined == "undefined"
\* error === null
NoError == "null"

\* Bounds of the model.
MaxFetches == 1
MaxPolls == 2

FieldValues(f) == IF f = "status" THEN StatusValues ELSE PaymentValues
VARIABLES
    db,                    \* the backend's bookings table: id -> row, for the ids present
    bookings,              \* useState: the displayed rows
    loading,               \* useState
    refreshing,            \* useState
    lastUpdated,           \* useState: 0 is null, otherwise the stamp of a Date
    error,                 \* useState
    newBookingsCount,      \* useState
    previousBookingCount,  \* useRef
    pollTimeoutRef,        \* useRef: 0 is null, otherwise a timer id
    timers,                \* the armed setTimeout timers of schedulePoll
    pendingChanges,        \* useState: the edit buffer
    saving,                \* useState
    mounted,               \* whether the component is mounted
    fetches,               \* bag of fetchBookings calls in flight
    updates,               \* the per-row update requests in flight at the backend
    saveCall,              \* the updateBookings call handleSaveChanges awaits
    configured,            \* supabaseUrl && supabaseAnonKey
    toast,                 \* the notification raised by the last step
    ev,                    \* the handler that ran in the last step
    edits                  \* history: what was set per row since its PendingEdit was created

vars == <<db, bookings, loading, refreshing, lastUpdated, error, newBookingsCount,
          previousBookingCount, pollTimeoutRef, timers, pendingChanges, saving,
          mounted, fetches, updates, saveCall, configured, toast, ev, edits>>

\* What the fetcher and the scheduler write, except the notification.
fetcherVars == <<bookings, loading, refreshing, lastUpdated, error, newBookingsCount,
                 previousBookingCount, pollTimeoutRef, timers, fetches>>
\* What the edit buffer writes, except the notification.
editVars == <<pendingChanges, saving, updates, saveCall, edits>>

\* ------------------------------------------------------------------ backend

DefaultRow == [status |-> "pending", payment_status |-> "Not Paid"]
EmptyDb == [i \in {} |-> DefaultRow]

\* supabase.from("bookings").select("*").order("created_at", {ascending: false})
Newest(k) == Created[Len(Created) + 1 - k]
List(d) ==
    LET newestFirst == [k \in 1..Len(Created) |-> Newest(k)]
        present == SelectSeq(newestFirst, LAMBDA i : i \in DOMAIN d)
    IN  [k \in 1..Len(present) |->
            [id |-> present[k], status |-> d[present[k]].status,
             payment_status |-> d[present[k]].payment_status]]

\* supabase.from("bookings").update(updateData).eq("id", id): only the fields
\* of updateData change, and a row that is not there matches nothing.
ApplyUpdate(d, u) ==
    IF u.id \in DOMAIN d
    THEN [d EXCEPT ![u.id] =
            [status |-> IF u.status # Undefined THEN u.status ELSE @.status,
             payment_status |-> IF u.payment_status # Undefined
                                THEN u.payment_status ELSE @.payment_status]]
    ELSE d

\* ------------------------------------------------------------------ notifications

\* The handler of the last step, and for a fetch attempt that ended in it, the
\* attempt's mode and retryCount.
Ev(op) == [op |-> op, silent |-> FALSE, retryCount |-> 0]
EvTask(op, t) == [op |-> op, silent |-> t.silent, retryCount |-> t.retryCount]

NoToast == [kind |-> "none", count |-> 0]
NewBookingsToast(n) == [kind |-> "new", count |-> n]
SaveSuccessToast(n) == [kind |-> "saved", count |-> n]
SaveFailureToast == [kind |-> "saveFailed", count |-> 0]
SaveThrownToast == [kind |-> "saveThrew", count |-> 0]

\* ------------------------------------------------------------------ timers

\* new Date(): lastUpdated is only tested for null (0), and every
\* setLastUpdated(new Date()) sets a new object, so every one of them re-renders.
ADate == 1

\* A timer handle is only ever compared with pollTimeoutRef.current, so an
\* armed timer carries whether it is that one (cur) instead of a number, and
\* pollTimeoutRef is 0 for null and 1 for a handle. cap is what the timer's
\* callback closed over.
Timer(cur, cap) == [cur |-> cur, cap |-> cap]

\* A clearTimeout that leaves the recorded timer armed.
ClearTimeoutSkipped(tms) == tms

\* clearTimeout(pollTimeoutRef.current)
ClearTimeout(tms) == {t \in tms : ~t.cur}

\* pollTimeoutRef.current = setTimeout(...)
SetTimeout(tms, cap) == {Timer(FALSE, t.cap) : t \in tms} \cup {Timer(TRUE, cap)}

\* ------------------------------------------------------------------ fetch calls

\* A fetchBookings call in flight: its arguments, where it waits, and, for a
\* silent call made by a poll callback, the bookings that callback closed over.
Task(silent, manual, retryCount, phase, delay, cap) ==
    [silent |-> silent, manual |-> manual, retryCount |-> retryCount,
     phase |-> phase, delay |-> delay, cap |-> cap]

SilentTasks(f) == {t \in BagToSet(f) : t.silent}
LoudTasks(f) == {t \in BagToSet(f) : ~t.silent}
CountOf(f, S) == BagCardinality([t \in S |-> f[t]])

\* The part of the state the fetcher and the scheduler write, as one record.
Current ==
    [bookings |-> bookings, loading |-> loading, refreshing |-> refreshing,
     lastUpdated |-> lastUpdated, error |-> error,
     newBookingsCount |-> newBookingsCount,
     previousBookingCount |-> previousBookingCount,
     pollTimeoutRef |-> pollTimeoutRef, timers |-> timers, fetches |-> fetches,
     toast |-> NoToast]

Commit(s) ==
    /\ bookings' = s.bookings
    /\ loading' = s.loading
    /\ refreshing' = s.refreshing
    /\ lastUpdated' = s.lastUpdated
    /\ error' = s.error
    /\ newBookingsCount' = s.newBookingsCount
    /\ previousBookingCount' = s.previousBookingCount
    /\ pollTimeoutRef' = s.pollTimeoutRef
    /\ timers' = s.timers
    /\ fetches' = s.fetches
    /\ toast' = s.toast

\* fetchBookings up to its await: the flags it sets and the request it sends.
BeginFetch(s, manual, silent, cap) ==
    [s EXCEPT
        !.refreshing = IF manual THEN TRUE ELSE @,
        !.loading = IF ~manual /\ s.lastUpdated = 0 /\ ~silent THEN TRUE ELSE @,
        !.error = IF ~silent THEN NoError ELSE @,
        !.fetches = @ (+) SetToBag({Task(silent, manual, 0, "request", 0, cap)})]

\* The check without its guard on the previous count.
DetectsNewFromZero(n, m) == m > n

\* The new-bookings check of fetchBookings: whether it notifies for a previous
\* count n and a fetched count m.
DetectsNew(n, m) == n > 0 /\ m > n

\* fetchBookings after its await when the backend returned data.
FetchData(s, t, data) ==
    LET n == s.previousBookingCount
        m == Len(data)
        s1 == IF DetectsNew(n, m)
              THEN [s EXCEPT !.newBookingsCount = m - n,
                             !.toast = NewBookingsToast(m - n)]
              ELSE s
        s2 == [s1 EXCEPT !.previousBookingCount = m]
        s3 == IF ~t.silent
              THEN [s2 EXCEPT !.bookings = data,
                              !.lastUpdated = ADate]
              ELSE s2
    IN  IF ~t.silent THEN [s3 EXCEPT !.loading = FALSE, !.refreshing = FALSE] ELSE s3

\* fetchBookings after its await when the backend returned an error.
FetchError(s, t) ==
    IF ~t.silent
    THEN [s EXCEPT !.error = "Failed to load bookings. Please try again.",
                   !.loading = FALSE, !.refreshing = FALSE]
    ELSE s

\* fetchBookings when the awaited call threw.
FetchCaught(s, t) ==
    IF ~t.silent
    THEN [s EXCEPT !.error = "An unexpected error occurred. Please try again.",
                   !.loading = FALSE, !.refreshing = FALSE]
    ELSE s

Settle(s, t) == [s EXCEPT !.fetches = @ (-) SetToBag({t})]

\* ------------------------------------------------------------------ scheduler

\* schedulePoll of a render whose bookings were cap.
SchedulePoll(s, cap) ==
    [s EXCEPT !.pollTimeoutRef = 1,
              !.timers = SetTimeout(ClearTimeout(s.timers), cap)]

\* The effect's cleanup.
Cleanup(s) == [s EXCEPT !.timers = ClearTimeout(s.timers)]

\* The effect's body: fetch at once, then start polling.
EffectBody(s) == SchedulePoll(BeginFetch(s, FALSE, FALSE, <<>>), s.bookings)

\* The effect after a render that changed fetchBookings or schedulePoll, that
\* is lastUpdated or bookings: its cleanup, then its body.
RerunEffect(s) == IF mounted THEN EffectBody(Cleanup(s)) ELSE s

\* JSON.stringify(newData) !== JSON.stringify(bookings): the rows come from
\* the same select, with the same keys in the same order, so the strings
\* differ exactly when the sequences do.
JsonDiffers(a, b) == a # b

\* A poll callback that schedules the next poll only when its fetch returned rows.
AfterPollSuccessOnly(s, t, got, newData) ==
    LET changed == got /\ (Len(t.cap) = 0 \/ JsonDiffers(newData, t.cap))
        s1 == IF changed
              THEN [s EXCEPT !.bookings = newData, !.lastUpdated = ADate]
              ELSE s
        s2 == IF got THEN SchedulePoll(s1, t.cap) ELSE s1
    IN  IF changed THEN RerunEffect(s2) ELSE s2

\* The poll callback after its await: got says whether the silent fetch
\* returned rows (newData) or undefined.
AfterPoll(s, t, got, newData) ==
    LET changed == got /\ (Len(t.cap) = 0 \/ JsonDiffers(newData, t.cap))
        s1 == IF changed
              THEN [s EXCEPT !.bookings = newData,
                             !.lastUpdated = ADate]
              ELSE s
        s2 == SchedulePoll(s1, t.cap)
    IN  IF changed THEN RerunEffect(s2) ELSE s2

\* ------------------------------------------------------------------ edit buffer

\* A lookup that never finds the row.
FindIndexMissing(pc, bookingId) == 0

\* pendingChanges.findIndex(change => change.id === bookingId), from 1; 0 for -1.
FindIndex(pc, bookingId) ==
    IF \E k \in 1..Len(pc) : pc[k].id = bookingId
    THEN CHOOSE k \in 1..Len(pc) :
            /\ pc[k].id = bookingId
            /\ \A j \in 1..Len(pc) : pc[j].id = bookingId => k <= j
    ELSE 0

NewChange(bookingId) ==
    [id |-> bookingId, status |-> Undefined, payment_status |-> Undefined]

\* An edit that replaces the row's entry instead of merging into it.
SetFieldReplacing(pc, bookingId, field, value) ==
    LET k == FindIndex(pc, bookingId)
    IN  IF k > 0
        THEN [pc EXCEPT ![k] = [NewChange(bookingId) EXCEPT ![field] = value]]
        ELSE Append(pc, [NewChange(bookingId) EXCEPT ![field] = value])

\* handleStatusChange: the buffer it sets.
SetField(pc, bookingId, field, value) ==
    LET k == FindIndex(pc, bookingId)
    IN  IF k > 0
        THEN [pc EXCEPT ![k] = [@ EXCEPT ![field] = value]]
        ELSE Append(pc, [NewChange(bookingId) EXCEPT ![field] = value])

NoEdits == [i \in Ids |-> [status |-> Undefined, payment_status |-> Undefined]]

\* Requests that carry the whole row, with defaults for what was not edited.
RequestsWholeRow(pc) ==
    {[id |-> pc[k].id,
      status |-> IF pc[k].status = Undefined THEN "pending" ELSE pc[k].status,
      payment_status |-> IF pc[k].payment_status = Undefined
                         THEN "Not Paid" ELSE pc[k].payment_status,
      orphan |-> FALSE] : k \in 1..Len(pc)}

\* The requests updateBookings issues: one per element of updates.
Requests(pc) ==
    {[id |-> pc[k].id, status |-> pc[k].status,
      payment_status |-> pc[k].payment_status, orphan |-> FALSE] : k \in 1..Len(pc)}

Idle == [state |-> "idle", n |-> 0]

Live(reqs) == {u \in reqs : ~u.orphan}

\* The requests of an updateBookings call that has returned or was given up.
Orphaned(reqs) == {[u EXCEPT !.orphan = TRUE] : u \in reqs}

\* A successful save that leaves the buffer as it is.
AfterSuccessKept(pc) == pc

\* The buffer handleSaveChanges sets when updateBookings reported success.
AfterSuccess(pc) == <<>>

\* A failed save that takes the first entry for a saved one and drops it.
AfterFailureFirstDropped(pc) == IF pc = <<>> THEN pc ELSE Tail(pc)

\* A failed save that clears the buffer all the same.
AfterFailureCleared(pc) == <<>>

\* The buffer handleSaveChanges leaves when the save failed.
AfterFailure(pc) == pc

\* ExpandedBookingDetails: the values its two selects show for a booking.
CurrentStatus(pc, booking) ==
    LET k == FindIndex(pc, booking.id)
    IN  IF k > 0 /\ pc[k].status # Undefined THEN pc[k].status ELSE booking.status

CurrentPaymentStatus(pc, booking) ==
    LET k == FindIndex(pc, booking.id)
    IN  IF k > 0 /\ pc[k].payment_status # Undefined
        THEN pc[k].payment_status
        ELSE "Not Paid"

\* What is rendered instead of the table.
TableShown == error = NoError /\ ~(loading /\ lastUpdated = 0)

\* ------------------------------------------------------------------ initial state

Constructed ==
    [bookings |-> <<>>, loading |-> TRUE, refreshing |-> FALSE, lastUpdated |-> 0,
     error |-> NoError, newBookingsCount |-> 0, previousBookingCount |-> 0,
     pollTimeoutRef |-> 0, timers |-> {}, fetches |-> EmptyBag, toast |-> NoToast]

\* The component with fetcher and scheduler state s over the backend table.
InitWith(s, table, config) ==
    /\ db = table
    /\ bookings = s.bookings
    /\ loading = s.loading
    /\ refreshing = s.refreshing
    /\ lastUpdated = s.lastUpdated
    /\ error = s.error
    /\ newBookingsCount = s.newBookingsCount
    /\ previousBookingCount = s.previousBookingCount
    /\ pollTimeoutRef = s.pollTimeoutRef
    /\ timers = s.timers
    /\ fetches = s.fetches
    /\ toast = s.toast
    /\ pendingChanges = <<>>
    /\ saving = FALSE
    /\ mounted = TRUE
    /\ updates = {}
    /\ saveCall = Idle
    /\ configured = config
    /\ ev = Ev("mount")
    /\ edits = NoEdits

\* The component after its first render and the first run of its effect, over
\* an empty bookings table.
Init == InitWith(EffectBody(Constructed), EmptyDb, TRUE)

\* ------------------------------------------------------------------ the backend's other clients

\* The next booking is created.
BackendInsert(i) ==
    /\ i \notin DOMAIN db
    /\ \A k \in 1..Len(Created) : Created[k] \notin DOMAIN db => i = Created[k] \/
                                   \E j \in 1..(k - 1) : Created[j] \notin DOMAIN db
    /\ db' = (i :> DefaultRow) @@ db
    /\ toast' = NoToast
    /\ UNCHANGED <<fetcherVars, editVars, mounted, configured>>

\* The newest booking is deleted.
BackendDelete(i) ==
    /\ i \in DOMAIN db
    /\ i = List(db)[1].id
    /\ db' = [j \in DOMAIN db \ {i} |-> db[j]]
    /\ toast' = NoToast
    /\ UNCHANGED <<fetcherVars, editVars, mounted, configured>>

\* ------------------------------------------------------------------ AdminDashboard (src/app/page.tsx)

LoudInFlight == CountOf(fetches, LoudTasks(fetches))
SilentInFlight == CountOf(fetches, SilentTasks(fetches))

\* The Refresh button, the new-bookings button and the error's "Try again".
CanRefresh == ~refreshing \/ newBookingsCount > 0 \/ error # NoError

HandleManualRefresh ==
    /\ mounted
    /\ CanRefresh
    /\ LoudInFlight < MaxFetches
    /\ Commit([BeginFetch(Current, TRUE, FALSE, <<>>) EXCEPT !.newBookingsCount = 0])
    /\ UNCHANGED <<db, editVars, mounted, configured>>

HandleVisibilityChange ==
    /\ mounted
    /\ LoudInFlight < MaxFetches
    /\ Commit(BeginFetch(Current, FALSE, FALSE, <<>>))
    /\ UNCHANGED <<db, editVars, mounted, configured>>

\* A fetch that discards the pending edits along with the rows it replaces.
FetchSucceedsDiscarding(t) ==
    /\ t \in LoudTasks(fetches)
    /\ Commit(RerunEffect(FetchData(Settle(Current, t), t, List(db))))
    /\ pendingChanges' = <<>>
    /\ edits' = NoEdits
    /\ UNCHANGED <<db, saving, updates, saveCall, mounted, configured>>

\* A non-silent fetchBookings call returns rows.
FetchSucceeds(t) ==
    /\ t \in LoudTasks(fetches)
    /\ Commit(RerunEffect(FetchData(Settle(Current, t), t, List(db))))
    /\ UNCHANGED <<db, editVars, mounted, configured>>

FetchFails(t) ==
    /\ t \in LoudTasks(fetches)
    /\ Commit(FetchError(Settle(Current, t), t))
    /\ UNCHANGED <<db, editVars, mounted, configured>>

FetchThrows(t) ==
    /\ t \in LoudTasks(fetches)
    /\ Commit(FetchCaught(Settle(Current, t), t))
    /\ UNCHANGED <<db, editVars, mounted, configured>>

\* The poll timer fires: its callback calls fetchBookings(false, true).
TimerFires(tm) ==
    /\ tm \in timers
    /\ SilentInFlight < MaxPolls
    /\ Commit(BeginFetch([Current EXCEPT !.timers = @ \ {tm}], FALSE, TRUE, tm.cap))
    /\ UNCHANGED <<db, editVars, mounted, configured>>

\* The silent fetch of a poll callback returns data, and the callback goes on.
PollSucceeds(t) ==
    /\ t \in SilentTasks(fetches)
    /\ LET data == List(db)
           s == AfterPoll(FetchData(Settle(Current, t), t, data), t, TRUE, data)
       IN  /\ CountOf(s.fetches, LoudTasks(s.fetches)) <= MaxFetches
           /\ Commit(s)
    /\ UNCHANGED <<db, editVars, mounted, configured>>

PollFails(t) ==
    /\ t \in SilentTasks(fetches)
    /\ Commit(AfterPoll(FetchError(Settle(Current, t), t), t, FALSE, <<>>))
    /\ UNCHANGED <<db, editVars, mounted, configured>>

PollThrows(t) ==
    /\ t \in SilentTasks(fetches)
    /\ Commit(AfterPoll(FetchCaught(Settle(Current, t), t), t, FALSE, <<>>))
    /\ UNCHANGED <<db, editVars, mounted, configured>>

\* The component is torn down: the effect's cleanup runs for the last time.
Unmount ==
    /\ mounted
    /\ mounted' = FALSE
    /\ Commit(Cleanup(Current))
    /\ UNCHANGED <<db, editVars, configured>>

HandleStatusChange(bookingId, field, value) ==
    /\ mounted
    /\ TableShown
    /\ \E k \in 1..Len(bookings) : bookings[k].id = bookingId
    /\ pendingChanges' = SetField(pendingChanges, bookingId, field, value)
    /\ edits' = [edits EXCEPT ![bookingId][field] = value]
    /\ toast' = NoToast
    /\ UNCHANGED <<db, fetcherVars, saving, updates, saveCall, mounted, configured>>

\* A handler that goes on with an empty buffer.
HandleSaveChangesUnguarded ==
    /\ mounted
    /\ ~saving
    /\ saving' = TRUE
    /\ updates' = updates \cup Requests(pendingChanges)
    /\ saveCall' = [state |-> "pending", n |-> Len(pendingChanges)]
    /\ toast' = NoToast
    /\ UNCHANGED <<db, fetcherVars, pendingChanges, edits, mounted, configured>>

\* handleSaveChanges up to its await, and updateBookings issuing its requests.
HandleSaveChanges ==
    /\ mounted
    /\ ~saving
    /\ Len(pendingChanges) # 0
    /\ saving' = TRUE
    /\ updates' = updates \cup Requests(pendingChanges)
    /\ saveCall' = [state |-> "pending", n |-> Len(pendingChanges)]
    /\ toast' = NoToast
    /\ UNCHANGED <<db, fetcherVars, pendingChanges, edits, mounted, configured>>

\* One update request succeeds at the backend; Promise.all resolves with the last.
BackendUpdateOk(u) ==
    /\ u \in updates
    /\ db' = ApplyUpdate(db, u)
    /\ updates' = updates \ {u}
    /\ saveCall' = IF ~u.orphan /\ saveCall.state = "pending" /\ Live(updates') = {}
                   THEN [saveCall EXCEPT !.state = "ok"]
                   ELSE saveCall
    /\ toast' = NoToast
    /\ UNCHANGED <<fetcherVars, pendingChanges, saving, edits, mounted, configured>>

\* A failed request that Promise.all takes for a settled one.
BackendUpdateFailSwallowed(u) ==
    /\ u \in updates
    /\ updates' = updates \ {u}
    /\ saveCall' = IF ~u.orphan /\ saveCall.state = "pending" /\ Live(updates') = {}
                   THEN [saveCall EXCEPT !.state = "ok"]
                   ELSE saveCall
    /\ toast' = NoToast
    /\ UNCHANGED <<db, fetcherVars, pendingChanges, saving, edits, mounted, configured>>

\* One update request fails: its promise throws and Promise.all rejects.
BackendUpdateFail(u) ==
    /\ u \in updates
    /\ updates' = updates \ {u}
    /\ saveCall' = IF ~u.orphan /\ saveCall.state = "pending"
                   THEN [saveCall EXCEPT !.state = "fail"]
                   ELSE saveCall
    /\ toast' = NoToast
    /\ UNCHANGED <<db, fetcherVars, pendingChanges, saving, edits, mounted, configured>>

\* handleSaveChanges after its await: updateBookings returned its result.
SaveReturns ==
    /\ saveCall.state \in {"ok", "fail"}
    /\ IF saveCall.state = "ok"
       THEN /\ toast' = SaveSuccessToast(saveCall.n)
            /\ pendingChanges' = AfterSuccess(pendingChanges)
       ELSE /\ toast' = SaveFailureToast
            /\ pendingChanges' = AfterFailure(pendingChanges)
    /\ edits' = IF pendingChanges' = <<>> THEN NoEdits ELSE edits
    /\ saving' = FALSE
    /\ updates' = Orphaned(updates)
    /\ saveCall' = Idle
    /\ UNCHANGED <<db, fetcherVars, mounted, configured>>

\* handleSaveChanges when the awaited server action call threw.
SaveThrows ==
    /\ saveCall.state # "idle"
    /\ toast' = SaveThrownToast
    /\ pendingChanges' = AfterFailure(pendingChanges)
    /\ edits' = IF pendingChanges' = <<>> THEN NoEdits ELSE edits
    /\ saving' = FALSE
    /\ updates' = Orphaned(updates)
    /\ saveCall' = Idle
    /\ UNCHANGED <<db, fetcherVars, mounted, configured>>

\* The fetcher and the scheduler, with the backend's other clients. ev tells
\* the steps in which a fetch returned rows, and those in which the document
\* became visible, from the others.
Next ==
    \/ \E i \in Ids : BackendInsert(i) /\ ev' = Ev("other")
    \/ \E i \in Ids : BackendDelete(i) /\ ev' = Ev("other")
    \/ HandleManualRefresh /\ ev' = Ev("other")
    \/ HandleVisibilityChange /\ ev' = Ev("visible")
    \/ \E t \in BagToSet(fetches) : FetchSucceeds(t) /\ ev' = Ev("fetchOk")
    \/ \E t \in BagToSet(fetches) : FetchFails(t) /\ ev' = Ev("other")
    \/ \E t \in BagToSet(fetches) : FetchThrows(t) /\ ev' = Ev("other")
    \/ \E tm \in timers : TimerFires(tm) /\ ev' = Ev("other")
    \/ \E t \in BagToSet(fetches) : PollSucceeds(t) /\ ev' = Ev("pollOk")
    \/ \E t \in BagToSet(fetches) : PollFails(t) /\ ev' = Ev("other")
    \/ \E t \in BagToSet(fetches) : PollThrows(t) /\ ev' = Ev("other")
    \/ Unmount /\ ev' = Ev("other")

Spec == Init /\ [][Next]_vars

\* The same steps, with ev keeping the last of: a manual refresh returned
\* rows, another non-silent fetch did, a poll's fetch did, a poll timer fired.
NextRace ==
    \/ \E i \in Ids : BackendInsert(i) /\ UNCHANGED ev
    \/ \E i \in Ids : BackendDelete(i) /\ UNCHANGED ev
    \/ HandleManualRefresh /\ UNCHANGED ev
    \/ HandleVisibilityChange /\ UNCHANGED ev
    \/ \E t \in BagToSet(fetches) :
            FetchSucceeds(t) /\ ev' = Ev(IF t.manual THEN "manualOk" ELSE "fetchOk")
    \/ \E t \in BagToSet(fetches) : FetchFails(t) /\ UNCHANGED ev
    \/ \E t \in BagToSet(fetches) : FetchThrows(t) /\ UNCHANGED ev
    \/ \E tm \in timers : TimerFires(tm) /\ ev' = Ev("timer")
    \/ \E t \in BagToSet(fetches) : PollSucceeds(t) /\ ev' = Ev("pollOk")
    \/ \E t \in BagToSet(fetches) : PollFails(t) /\ UNCHANGED ev
    \/ \E t \in BagToSet(fetches) : PollThrows(t) /\ UNCHANGED ev
    \/ Unmount /\ UNCHANGED ev

SpecRace == Init /\ [][NextRace]_vars

\* ------------------------------------------------------------------ AdminDashboard with retries (src/unnamed/part_001)

\* retryCount < 3
MaxRetries == 3

\* 1000 * (retryCount + 1), in milliseconds
BackoffUnit == 1000

ConfigError == "Database configuration is incomplete. Please check your environment variables."
LoadError == "Failed to load bookings: <message>"
ConnectionError(cause) ==
    IF cause = "Request timeout"
    THEN "Connection error: Request timeout. Please check your network connection and try again."
    ELSE "Connection error: Failed to connect to the database. Please check your network connection and try again."

\* What makes the awaited race throw: the 10 s timeout, or the request rejecting.
Causes == {"Request timeout", "rejected"}

\* The finally block of fetchBookings.
Finally(s, silent) ==
    IF ~silent THEN [s EXCEPT !.loading = FALSE, !.refreshing = FALSE] ELSE s

\* A call that sends its request without looking at the configuration.
AttemptUnchecked(s, manual, silent, retryCount, config) ==
    [s EXCEPT
        !.refreshing = IF manual THEN TRUE ELSE @,
        !.loading = IF ~manual /\ s.lastUpdated = 0 /\ ~silent THEN TRUE ELSE @,
        !.error = IF ~silent THEN NoError ELSE @,
        !.fetches = @ (+) SetToBag({Task(silent, manual, retryCount, "request", 0, <<>>)})]

\* fetchBookings(isManualRefresh, silent, retryCount) up to its await; without
\* the configuration it returns at once.
Attempt(s, manual, silent, retryCount, config) ==
    LET s1 == [s EXCEPT
                !.refreshing = IF manual THEN TRUE ELSE @,
                !.loading = IF ~manual /\ s.lastUpdated = 0 /\ ~silent THEN TRUE ELSE @,
                !.error = IF ~silent THEN NoError ELSE @]
    IN  IF ~config
        THEN Finally([s1 EXCEPT !.error = IF ~silent THEN ConfigError ELSE @], silent)
        ELSE [s1 EXCEPT !.fetches =
                @ (+) SetToBag({Task(silent, manual, retryCount, "request", 0, <<>>)})]

\* A returned error that is thrown on to the catch block, and so retried.
RetryFetchErrorRethrown(s, t) ==
    IF t.retryCount < MaxRetries /\ ~t.silent
    THEN [s EXCEPT !.fetches = @ (+) SetToBag({Task(t.silent, t.manual, t.retryCount,
                                    "backoff", BackoffUnit * (t.retryCount + 1), <<>>)})]
    ELSE Finally([s EXCEPT !.error = IF ~t.silent THEN LoadError ELSE @], t.silent)

\* A returned error that is surfaced in silent mode too.
RetryFetchErrorLoud(s, t) ==
    [s EXCEPT !.error = LoadError, !.loading = FALSE, !.refreshing = FALSE]

\* fetchBookings after its await when the backend returned an error: it sets
\* the error and returns.
RetryFetchError(s, t) ==
    Finally([s EXCEPT !.error = IF ~t.silent THEN LoadError ELSE @], t.silent)

\* A catch block that also empties the list when it gives up.
RetryFetchCaughtEmptying(s, t, cause) ==
    IF t.retryCount < MaxRetries /\ ~t.silent
    THEN [s EXCEPT !.fetches = @ (+) SetToBag({Task(t.silent, t.manual, t.retryCount,
                                    "backoff", BackoffUnit * (t.retryCount + 1), <<>>)})]
    ELSE Finally([s EXCEPT !.error = IF ~t.silent THEN ConnectionError(cause) ELSE @,
                           !.bookings = <<>>], t.silent)

\* A catch block that gives up at once.
RetryFetchCaughtOnce(s, t, cause) ==
    Finally([s EXCEPT !.error = IF ~t.silent THEN ConnectionError(cause) ELSE @], t.silent)

\* The catch block of fetchBookings: it waits to retry, or gives up.
RetryFetchCaught(s, t, cause) ==
    IF t.retryCount < MaxRetries /\ ~t.silent
    THEN [s EXCEPT !.fetches = @ (+) SetToBag({Task(t.silent, t.manual, t.retryCount,
                                    "backoff", BackoffUnit * (t.retryCount + 1), <<>>)})]
    ELSE Finally([s EXCEPT !.error = IF ~t.silent THEN ConnectionError(cause) ELSE @], t.silent)

\* The catch block after its wait: the recursive call up to its await, and
\* then the finally block of the call that returns it.
RetryAgain(s, t, config) ==
    Finally(Attempt(s, t.manual, t.silent, t.retryCount + 1, config), t.silent)

RetrySchedulePoll(s) == SchedulePoll(s, <<>>)

RetryEffectBody(s, config) ==
    IF ~config
    THEN [s EXCEPT !.error = ConfigError, !.loading = FALSE]
    ELSE RetrySchedulePoll(Attempt(s, FALSE, FALSE, 0, config))

RetryRerunEffect(s) ==
    IF mounted THEN RetryEffectBody(Cleanup(s), configured) ELSE s

InitRetry ==
    \E config \in BOOLEAN : InitWith(RetryEffectBody(Constructed, config), EmptyDb, config)

\* The Refresh button, the new-bookings button, the error's Retry and the
\* Refresh of the empty list.
RetryCanRefresh == CanRefresh \/ (~(loading /\ lastUpdated = 0) /\ Len(bookings) = 0)

RetryManualRefresh ==
    /\ mounted
    /\ RetryCanRefresh
    /\ LoudInFlight < MaxFetches
    /\ Commit([Attempt(Current, TRUE, FALSE, 0, configured) EXCEPT !.newBookingsCount = 0])
    /\ UNCHANGED <<db, editVars, mounted, configured>>

\* The listener is only added when the configuration is there.
RetryVisibilityChange ==
    /\ mounted
    /\ configured
    /\ LoudInFlight < MaxFetches
    /\ Commit(Attempt(Current, FALSE, FALSE, 0, configured))
    /\ UNCHANGED <<db, editVars, mounted, configured>>

\* The poll timer fires: its callback starts a silent fetch and, without
\* waiting for it, arms the next timer.
RetryTimerFires(tm) ==
    /\ tm \in timers
    /\ SilentInFlight < MaxPolls
    /\ Commit(RetrySchedulePoll(
            Attempt([Current EXCEPT !.timers = @ \ {tm}], FALSE, TRUE, 0, configured)))
    /\ UNCHANGED <<db, editVars, mounted, configured>>

Requested(t) == t \in BagToSet(fetches) /\ t.phase = "request"

RetryFetchReturns(t) ==
    /\ Requested(t)
    /\ LET s == FetchData(Settle(Current, t), t, List(db))
       IN  Commit(IF t.silent THEN s ELSE RetryRerunEffect(s))
    /\ UNCHANGED <<db, editVars, mounted, configured>>

RetryFetchFails(t) ==
    /\ Requested(t)
    /\ Commit(RetryFetchError(Settle(Current, t), t))
    /\ UNCHANGED <<db, editVars, mounted, configured>>

RetryFetchThrows(t, cause) ==
    /\ Requested(t)
    /\ Commit(RetryFetchCaught(Settle(Current, t), t, cause))
    /\ UNCHANGED <<db, editVars, mounted, configured>>

RetryBackoffEnds(t) ==
    /\ t \in BagToSet(fetches)
    /\ t.phase = "backoff"
    /\ Commit(RetryAgain(Settle(Current, t), t, configured))
    /\ UNCHANGED <<db, editVars, mounted, configured>>

\* The bookings that come and go while this version of the page is open.
RetryIds == {Created[1], Created[2]}

\* A request is given up after 10 s and the next poll is 30 s away, so a silent
\* fetch has settled before the next timer fires.
NextRetry ==
    \/ \E i \in RetryIds : BackendInsert(i) /\ ev' = Ev("insert")
    \/ \E i \in RetryIds : BackendDelete(i) /\ ev' = Ev("delete")
    \/ RetryManualRefresh /\ ev' = Ev("manual")
    \/ RetryVisibilityChange /\ ev' = Ev("visible")
    \/ \E tm \in timers : SilentInFlight = 0 /\ RetryTimerFires(tm) /\ ev' = Ev("timer")
    \/ \E t \in BagToSet(fetches) : RetryFetchReturns(t) /\ ev' = EvTask("fetchOk", t)
    \/ \E t \in BagToSet(fetches) : RetryFetchFails(t) /\ ev' = EvTask("fetchError", t)
    \/ \E t \in BagToSet(fetches), cause \in Causes :
            RetryFetchThrows(t, cause) /\ ev' = EvTask("fetchThrew", t)
    \/ \E t \in BagToSet(fetches) : RetryBackoffEnds(t) /\ ev' = EvTask("backoffEnds", t)
    \/ Unmount /\ ev' = Ev("unmount")

SpecRetry == InitRetry /\ [][NextRetry]_vars

\* ------------------------------------------------------------------ the edit buffer in use

EditIds == {"a", "b"}

\* The selections the user makes.
UserEdits ==
    {<<"a", "status", "confirmed">>, <<"a", "payment_status", "Paid">>,
     <<"b", "status", "confirmed">>}

\* The component after its first render, over a table that holds two bookings.
InitEdit == InitWith(EffectBody(Constructed), [i \in EditIds |-> DefaultRow], TRUE)

\* The edit buffer, with the fetches and polls that go on under it; a poll
\* answers before the next one is due.
NextEdit ==
    \/ \E t \in BagToSet(fetches) : FetchSucceeds(t) /\ UNCHANGED ev
    \/ \E tm \in timers : SilentInFlight = 0 /\ TimerFires(tm) /\ UNCHANGED ev
    \/ \E t \in BagToSet(fetches) : PollSucceeds(t) /\ UNCHANGED ev
    \/ \E e \in UserEdits : HandleStatusChange(e[1], e[2], e[3]) /\ UNCHANGED ev
    \/ HandleSaveChanges /\ UNCHANGED ev
    \/ \E u \in updates : BackendUpdateOk(u) /\ UNCHANGED ev
    \/ \E u \in updates : BackendUpdateFail(u) /\ UNCHANGED ev
    \/ SaveReturns /\ UNCHANGED ev
    \/ SaveThrows /\ UNCHANGED ev

SpecEdit == InitEdit /\ [][NextEdit]_vars

\* ------------------------------------------------------------------ the edit buffer alone

FirstFetch == Task(FALSE, FALSE, 0, "request", 0, <<>>)

\* The component once its first fetch has returned the table's rows.
Shown(table) ==
    EffectBody(Cleanup(
        FetchData(Settle(EffectBody(Constructed), FirstFetch), FirstFetch, List(table))))

InitBuffer == InitWith(Shown([i \in EditIds |-> DefaultRow]), [i \in EditIds |-> DefaultRow], TRUE)

\* Every selection the two selects offer, on every displayed row.
NextBuffer ==
    \E i \in EditIds, f \in Fields : \E v \in FieldValues(f) :
        HandleStatusChange(i, f, v) /\ UNCHANGED ev

SpecBuffer == InitBuffer /\ [][NextBuffer]_vars

\* ------------------------------------------------------------------ saving

\* The edit buffer and its saves, with each step's handler in ev; a request
\* that settles after its updateBookings call returned is a late one.
NextSave ==
    \/ \E e \in UserEdits : HandleStatusChange(e[1], e[2], e[3]) /\ ev' = Ev("edit")
    \/ HandleSaveChanges /\ ev' = Ev("save")
    \/ \E u \in updates :
            BackendUpdateOk(u) /\ ev' = Ev(IF u.orphan THEN "lateOk" ELSE "updateOk")
    \/ \E u \in updates :
            BackendUpdateFail(u) /\ ev' = Ev(IF u.orphan THEN "lateFailed" ELSE "updateFailed")
    \/ SaveReturns /\ ev' = Ev("saveReturned")
    \/ SaveThrows /\ ev' = Ev("saveThrew")

SpecSave == InitBuffer /\ [][NextSave]_vars

\* A request in flight gets its answer from the backend.
UpdateSettles ==
    \E u \in updates :
        \/ BackendUpdateOk(u) /\ ev' = Ev(IF u.orphan THEN "lateOk" ELSE "updateOk")
        \/ BackendUpdateFail(u) /\ ev' = Ev(IF u.orphan THEN "lateFailed" ELSE "updateFailed")

\* The awaited call has its result and handleSaveChanges goes on.
SaveSettles == SaveReturns /\ ev' = Ev("saveReturned")

\* The same steps, where the backend answers every request and a promise that
\* has settled resumes the handler that awaits it.
SpecSaveFair == SpecSave /\ WF_vars(UpdateSettles) /\ WF_vars(SaveSettles)

\* ------------------------------------------------------------------ claims: the edit buffer

EntriesOf(i) == {k \in 1..Len(pendingChanges) : pendingChanges[k].id = i}

\* C1: after any sequence of handleStatusChange calls, the buffer holds for
\* each row exactly the fields that were set for it, each with the value of
\* the last call that set it, and no entry for a row nothing was set for.
C1_LastWritePerField ==
    \A i \in Ids :
        IF edits[i] = NoEdits[i]
        THEN EntriesOf(i) = {}
        ELSE \E k \in EntriesOf(i) :
                /\ EntriesOf(i) = {k}
                /\ pendingChanges[k].status = edits[i].status
                /\ pendingChanges[k].payment_status = edits[i].payment_status

\* Scenario B: status, then payment_status, on the same row.
C1_Witness ==
    pendingChanges = <<[id |-> "a", status |-> "confirmed", payment_status |-> "Paid"]>>

\* C2: the buffer never holds two entries with the same id.
C2_OnePerRow ==
    \A j, k \in 1..Len(pendingChanges) :
        pendingChanges[j].id = pendingChanges[k].id => j = k

\* Two rows edited, the first of them twice.
C2_Witness ==
    /\ Len(pendingChanges) = 2
    /\ pendingChanges[1].status # Undefined
    /\ pendingChanges[1].payment_status # Undefined

\* C3: right after updateBookings reported success the buffer is empty.
C3_EmptyAfterSuccess == toast.kind = "saved" => pendingChanges = <<>>

C3_Witness == toast = SaveSuccessToast(2) /\ pendingChanges = <<>> /\ ~saving

SaveEnds == saveCall.state # "idle" /\ saveCall'.state = "idle"

\* C4: when a save ends in failure the buffer is what it was, an error toast
\* is raised and no request is in flight for it any more; a new update
\* request is only ever issued by a step that starts a save (saving false to true).
C4_FailureKeepsBuffer ==
    [][/\ (SaveEnds /\ toast'.kind # "saved") =>
            /\ pendingChanges' = pendingChanges
            /\ toast'.kind \in {"saveFailed", "saveThrew"}
            /\ Live(updates') = {}
       /\ Live(updates') \ Live(updates) # {} => ~saving /\ saving']_vars

C4_Witness == toast = SaveFailureToast /\ Len(pendingChanges) = 2 /\ ~saving

Overrides(booking, field) ==
    LET k == FindIndex(pendingChanges, booking.id)
    IN  k > 0 /\ pendingChanges[k][field] # Undefined

Override(booking, field) == pendingChanges[FindIndex(pendingChanges, booking.id)][field]

\* C5: the value shown for a row's status and payment_status is the pending
\* edit's value for a field the edit overrides and the fetched row's own value
\* for a field it does not override.
C5_MergedRow ==
    \A k \in 1..Len(bookings) :
        LET b == bookings[k]
        IN  /\ CurrentStatus(pendingChanges, b) =
                 IF Overrides(b, "status") THEN Override(b, "status") ELSE b.status
            /\ CurrentPaymentStatus(pendingChanges, b) =
                 IF Overrides(b, "payment_status")
                 THEN Override(b, "payment_status")
                 ELSE b.payment_status

\* ------------------------------------------------------------------ claims: the poll scheduler

\* C6: no two timer-triggered fetches are in flight at the same time.
C6_OneScheduledFetch == SilentInFlight <= 1

\* C7: once the component is torn down no poll timer is armed, so that no
\* scheduled fetch starts any more.
C7_StoppedStaysStopped == ~mounted => timers = {}

\* ------------------------------------------------------------------ claims: the fetcher

FetchReturned == ev'.op \in {"fetchOk", "pollOk"}

\* C8 as stated: for every previous count N >= 0, a successful fetch of M rows
\* raises the new-bookings notification with M - N when M > N and none when M <= N.
C8_DeltaFromAnyCount ==
    [][FetchReturned =>
        LET n == previousBookingCount
            m == previousBookingCount'
        IN  IF m > n THEN toast' = NewBookingsToast(m - n) ELSE toast'.kind # "new"]_vars

\* C8: for a previous count N > 0, a successful fetch of M rows raises the
\* new-bookings notification with M - N when M > N and none when M <= N; for
\* N = 0 it raises none, whatever M is.
C8_DeltaFromPositiveCount ==
    [][FetchReturned =>
        LET n == previousBookingCount
            m == previousBookingCount'
        IN  IF n > 0 /\ m > n
            THEN toast' = NewBookingsToast(m - n) /\ newBookingsCount' = m - n
            ELSE toast'.kind # "new"]_vars

\* A poll that found three bookings where one was known.
C8_Witness == ev.op = "pollOk" /\ toast = NewBookingsToast(2) /\ previousBookingCount = 3

\* ------------------------------------------------------------------ claims: retries

\* A non-silent call waiting to retry after its attempt number rc + 1 failed.
Waiting(f, rc) ==
    \E t \in BagToSet(f) :
        /\ ~t.silent
        /\ t.phase = "backoff"
        /\ t.retryCount = rc
        /\ t.delay = BackoffUnit * (rc + 1)

Threw == ev'.op = "fetchThrew"

SameFlags(s) == s.error = error /\ s.loading = loading /\ s.refreshing = refreshing

C12_FailsIfAnyFails ==
    [][/\ ev'.op = "updateFailed" => saveCall'.state = "fail"
       /\ saveCall.state = "fail" => saveCall'.state \in {"fail", "idle"}
       /\ (saveCall.state = "fail" /\ saveCall'.state = "idle")
            => toast' \in {SaveFailureToast, SaveThrownToast}
       /\ (saveCall.state = "fail" /\ ev'.op = "saveReturned") => toast' = SaveFailureToast
       /\ (saveCall'.state = "ok" /\ saveCall.state # "ok")
            => /\ ev'.op = "updateOk"
               /\ saveCall.state = "pending"
               /\ Live(updates') = {}
       /\ toast'.kind = "saved" => saveCall.state = "ok" /\ ev'.op = "saveReturned"]_vars

\* Scenario D: a save of two edits of which one request failed.
C12_Witness ==
    /\ ev.op = "saveReturned"
    /\ toast = SaveFailureToast
    /\ Len(pendingChanges) = 2
    /\ db["a"].status = "confirmed"
    /\ db["b"].status = "pending"

\* C13: nothing is rolled back on a partial failure: only the success of a
\* request changes the backend's table, by applying that request; a request
\* that fails, and a save that ends in failure, leave the table as it is, and
\* the failed save leaves every entry of the buffer in it.
C13_NoRollback ==
    [][/\ db' # db => ev'.op \in {"updateOk", "lateOk"}
       /\ ev'.op \in {"updateOk", "lateOk"}
            => \E u \in updates \ updates' : db' = ApplyUpdate(db, u)
       /\ (ev'.op \in {"saveReturned", "saveThrew"} /\ toast'.kind # "saved")
            => pendingChanges' = pendingChanges /\ db' = db]_vars

\* Row a's update was applied, row b's failed, the save reported failure and
\* both edits are still in the buffer.
C13_Witness ==
    /\ toast = SaveFailureToast
    /\ updates = {}
    /\ db["a"] = [status |-> "confirmed", payment_status |-> "Paid"]
    /\ db["b"] = DefaultRow
    /\ pendingChanges = <<[id |-> "a", status |-> "confirmed", payment_status |-> "Paid"],
                          [id |-> "b", status |-> "confirmed", payment_status |-> Undefined]>>

Issued == Live(updates') \ Live(updates)

\* C14: handleSaveChanges issues one request per entry of the buffer, to that
\* entry's id and carrying each field the entry sets and no other; a request
\* that succeeds changes, in the backend's table, only fields it carries, on
\* the row it is addressed to, to the values it carries.
C14_OneRequestPerEdit ==
    [][/\ ev'.op = "save" =>
            /\ Cardinality(Issued) = Len(pendingChanges)
            /\ \A k \in 1..Len(pendingChanges) :
                \E u \in Issued :
                    /\ u.id = pendingChanges[k].id
                    /\ \A f \in Fields : u[f] = pendingChanges[k][f]
       /\ Issued # {} => ev'.op = "save"
       /\ \A i \in DOMAIN db, f \in Fields :
            db'[i][f] # db[i][f] =>
                \E u \in updates \ updates' : u.id = i /\ u[f] = db'[i][f]]_vars

\* A save of two edits, one of them of payment_status alone, is under way.
C14_Witness ==
    /\ ev.op = "save"
    /\ Live(updates) =
        {[id |-> "a", status |-> Undefined, payment_status |-> "Paid", orphan |-> FALSE],
         [id |-> "b", status |-> "confirmed", payment_status |-> Undefined, orphan |-> FALSE]}

\* C15: the step in which a save is reported successful starts a fetch.
C15_SaveStartsFetch ==
    [][toast'.kind = "saved" => BagCardinality(fetches') > BagCardinality(fetches)]_vars

\* ------------------------------------------------------------------ claims: visibility

TimerKept == timers' = timers /\ pollTimeoutRef' = pollTimeoutRef

\* C16: the document becoming visible starts a non-silent fetch and leaves
\* the poll timer as it is, and so does that fetch when it returns.
C16_VisibleFetchKeepsTimer ==
    [][/\ ev'.op = "visible" => TimerKept /\ LoudInFlight' = LoudInFlight + 1
       /\ (ev.op = "visible" /\ ev'.op = "fetchOk") => TimerKept]_vars

\* ------------------------------------------------------------------ claims: polling goes on

Armed(tms) == \E tm \in tms : tm.cur

\* C17: while the component is mounted, a step in which a poll's silent fetch
\* settles, with rows or with a swallowed failure, ends with the poll timer
\* armed, and at all times a poll timer is armed or a poll's fetch is in flight.
C17_PollingGoesOn ==
    [][/\ (SilentInFlight' < SilentInFlight /\ mounted')
            => Armed(timers') /\ pollTimeoutRef' = 1
       /\ mounted' => timers' # {} \/ SilentInFlight' > 0]_vars

\* A poll returned and the next one is scheduled.
C17_Witness == ev.op = "pollOk" /\ mounted /\ Armed(timers) /\ SilentInFlight = 0

\* ------------------------------------------------------------------ claims: configuration

C19_LastCompletedShown ==
    [][((ev.op = "manualOk" /\ ev'.op = "pollOk") \/ (ev.op = "pollOk" /\ ev'.op = "manualOk"))
        => bookings' = List(db)]_vars

\* C20: after a step in which a fetch, silent or not, returned rows, the
\* displayed rows are the rows it returned.
C20_ReplacedWholesale ==
    [][ev'.op \in {"fetchOk", "pollOk"} => bookings' = List(db)]_vars

\* ------------------------------------------------------------------ claims: the life of a pending edit

\* C21: in every step, an entry of the buffer either stays where it is, for
\* the same row and with every field it sets still set, or goes with the whole
\* buffer in the step that reports a successful save; and a step that changes
\* an entry is an edit: it leaves the fetcher, the scheduler, the saving flag
\* and the backend alone.
C21_EditStaysUntilSaved ==
    [][\A k \in 1..Len(pendingChanges) :
        \/ toast'.kind = "saved" /\ pendingChanges' = <<>>
        \/ /\ k <= Len(pendingChanges')
           /\ pendingChanges'[k].id = pendingChanges[k].id
           /\ \A f \in Fields :
                pendingChanges[k][f] # Undefined => pendingChanges'[k][f] # Undefined
           /\ pendingChanges'[k] # pendingChanges[k]
                => UNCHANGED <<fetcherVars, saving, updates, db>>]_vars

\* Row a's edit, made in two selections, is still there after a failed save.
C21_Witness ==
    /\ toast = SaveFailureToast
    /\ pendingChanges = <<[id |-> "a", status |-> "confirmed", payment_status |-> "Paid"]>>
    /\ updates = {}

\* ------------------------------------------------------------------ updateBookingStatus (src/lib/supabase.ts)

\* The arguments the server action is called with: the type of field is only
\* checked at compile time, and any of the three strings may be empty.
CallIds == {"", "a", "b"}
CallFields == {"", "status", "payment_status", "price"}
CallValues == {"", "confirmed"}

\* What the call returns.
Returned(success, message) == [returned |-> TRUE, success |-> success, error |-> message]
\* The call waits for the backend.
Awaiting == [returned |-> FALSE, success |-> FALSE, error |-> NoError]

\* A server action without the validation of its inputs.
RejectionNone(bookingId, field, value) == NoError

\* The validation of updateBookingStatus: the error it returns, or null. A
\* string is falsy when it is empty.
Rejection(bookingId, field, value) ==
    IF bookingId = "" THEN "Missing booking ID"
    ELSE IF field = "" \/ field \notin {"status", "payment_status"} THEN "Invalid field name"
    ELSE IF value = "" THEN "Missing status value"
    ELSE NoError

\* supabase.from("bookings").update({[field]: value}).eq("id", bookingId)
StatusRequest(bookingId, field, value) ==
    [id |-> bookingId,
     status |-> IF field = "status" THEN value ELSE Undefined,
     payment_status |-> IF field = "payment_status" THEN value ELSE Undefined,
     orphan |-> FALSE]

\* updateBookingStatus up to its await, or to the return of its validation.
UpdateBookingStatus(bookingId, field, value) ==
    LET rejection == Rejection(bookingId, field, value)
    IN  /\ IF rejection # NoError
           THEN /\ updates' = updates
                /\ ev' = [op |-> "updateBookingStatus", bookingId |-> bookingId,
                          field |-> field, value |-> value,
                          result |-> Returned(FALSE, rejection)]
           ELSE /\ updates' = updates \cup {StatusRequest(bookingId, field, value)}
                /\ ev' = [op |-> "updateBookingStatus", bookingId |-> bookingId,
                          field |-> field, value |-> value, result |-> Awaiting]
        /\ toast' = NoToast
        /\ UNCHANGED <<db, fetcherVars, pendingChanges, saving, saveCall, edits,
                       mounted, configured>>

\* The backend applied the update: {success: true, data}.
StatusUpdateOk(u) ==
    /\ u \in updates
    /\ db' = ApplyUpdate(db, u)
    /\ updates' = updates \ {u}
    /\ ev' = [op |-> "updated", result |-> Returned(TRUE, NoError)]
    /\ toast' = NoToast
    /\ UNCHANGED <<fetcherVars, pendingChanges, saving, saveCall, edits, mounted, configured>>

\* The backend returned an error, or the call threw: {success: false, error}.
StatusUpdateFail(u) ==
    /\ u \in updates
    /\ updates' = updates \ {u}
    /\ ev' = [op |-> "updateFailed", result |-> Returned(FALSE, "<message>")]
    /\ toast' = NoToast
    /\ UNCHANGED <<db, fetcherVars, pendingChanges, saving, saveCall, edits,
                   mounted, configured>>

InitStatus == InitWith(Constructed, [i \in EditIds |-> DefaultRow], TRUE)

NextStatus ==
    \/ \E i \in CallIds, f \in CallFields, v \in CallValues : UpdateBookingStatus(i, f, v)
    \/ \E u \in updates : StatusUpdateOk(u)
    \/ \E u \in updates : StatusUpdateFail(u)

SpecStatus == InitStatus /\ [][NextStatus]_vars

\* ------------------------------------------------------------------ claims: updateBookingStatus

Called == ev'.op = "updateBookingStatus"

\* C22: a call of updateBookingStatus with an empty booking id, a field that
\* is neither status nor payment_status, or an empty value returns
\* success = false with an error message and issues no update; every other call
\* issues one update, of the field it names on the row it names.
C22_RejectsBadInput ==
    [][Called =>
        IF ev'.bookingId = "" \/ ev'.field \notin Fields \/ ev'.value = ""
        THEN /\ ev'.result.returned
             /\ ~ev'.result.success
             /\ ev'.result.error \in
                    {"Missing booking ID", "Invalid field name", "Missing status value"}
             /\ updates' = updates
             /\ db' = db
        ELSE /\ ~ev'.result.returned
             /\ \E u \in updates' :
                    /\ updates' = updates \cup {u}
                    /\ u.id = ev'.bookingId
                    /\ u[ev'.field] = ev'.value
                    /\ \A f \in Fields \ {ev'.field} : u[f] = Undefined]_vars

\* A call that names a field the table has, but not one of the two, is
\* rejected while an update of row a is in flight.
C22_Witness ==
    /\ ev.op = "updateBookingStatus"
    /\ ev.field = "price"
    /\ ev.bookingId = "b"
    /\ ev.result = Returned(FALSE, "Invalid field name")
    /\ updates = {StatusRequest("a", "status", "confirmed")}

\* ------------------------------------------------------------------ claims: edits made during a save

\* C23: in the step that reports a successful save and empties the buffer,
\* every field set by an entry of the buffer has been written to the backend:
\* the row holds the entry's value for it.
C23_RemovedMeansSaved ==
    [][toast'.kind = "saved" =>
        \A k \in 1..Len(pendingChanges) : \A f \in Fields :
            pendingChanges[k][f] # Undefined
                => db[pendingChanges[k].id][f] = pendingChanges[k][f]]_vars

\* ------------------------------------------------------------------ claims: a fetch starts no fetch

\* C24: the step in which a fetch returns rows starts no fetch, so that one
\* call fewer is in flight after it, and when the fetch is not a poll's it
\* leaves the poll timer as it is.
C24_CompletionStartsNothing ==
    [][/\ ev'.op \in {"fetchOk", "pollOk"}
            => BagCardinality(fetches') = BagCardinality(fetches) - 1
       /\ ev'.op = "fetchOk" => TimerKept]_vars

\* ------------------------------------------------------------------ claims: one poll timer

\* C25: at most one poll timer is armed, and it is the one recorded in
\* pollTimeoutRef.
C25_OneTimerArmed ==
    /\ Cardinality(timers) <= 1
    /\ \A tm \in timers : tm.cur /\ pollTimeoutRef = 1

\* A poll callback whose fetch was in flight while the effect re-ran has
\* armed the timer: the callback it holds closed over rows that are no longer
\* the displayed ones.
C25_Witness ==
    /\ ev.op = "pollOk"
    /\ mounted
    /\ \E tm \in timers : timers = {tm} /\ tm.cap # bookings

\* ------------------------------------------------------------------ claims: one save at a time

\* C26: the update requests in flight at the backend all belong to the same
\* call of updateBookings: none of an earlier call is left when the requests of
\* the call awaited now are there.
C26_OneSaveInFlight == \A u, v \in updates : u.orphan = v.orphan

\* ------------------------------------------------------------------ claims: a failed fetch

SameRows(s) ==
    /\ s.bookings = bookings
    /\ s.lastUpdated = lastUpdated
    /\ s.previousBookingCount = previousBookingCount
    /\ s.newBookingsCount = newBookingsCount

\* C27: a step in which an attempt of a fetch, silent or not, ends with a
\* backend error or a thrown exception, and a step in which a retry starts,
\* leaves the displayed rows, lastUpdated, the last known row count and the
\* new-bookings count as they were; so does each failing outcome that
\* fetchBookings and the poll callback of src/app/page.tsx have for a call in
\* flight.
C27_FailedFetchFrame ==
    [][/\ ev'.op \in {"fetchError", "fetchThrew", "backoffEnds"}
            => UNCHANGED <<bookings, lastUpdated, previousBookingCount, newBookingsCount>>
       /\ \A t \in BagToSet(fetches) :
            LET s == Settle(Current, t)
            IN  /\ SameRows(FetchError(s, t))
                /\ SameRows(FetchCaught(s, t))
                /\ SameRows(AfterPoll(FetchError(s, t), t, FALSE, <<>>))
                /\ SameRows(AfterPoll(FetchCaught(s, t), t, FALSE, <<>>))]_vars

\* The last attempt of a fetch timed out while one row was shown and a second
\* one was announced.
C27_Witness ==
    /\ ev = [op |-> "fetchThrew", silent |-> FALSE, retryCount |-> 3]
    /\ Len(bookings) = 1
    /\ lastUpdated = ADate
    /\ previousBookingCount = 2
    /\ newBookingsCount = 1

\* ------------------------------------------------------------------ fetches under the edit buffer

\* The selections the user makes while fetches come and go.
FrameEdits == {<<"a", "status", "confirmed">>, <<"b", "payment_status", "Paid">>}

\* The fetcher and the scheduler with every outcome of a fetch, over the edit
\* buffer and its saves; ev tells the steps of the fetcher and the scheduler
\* from those of handleStatusChange and of handleSaveChanges.
NextFrame ==
    \/ HandleManualRefresh /\ ev' = Ev("fetch")
    \/ \E t \in BagToSet(fetches) : FetchSucceeds(t) /\ ev' = Ev("fetch")
    \/ \E t \in BagToSet(fetches) : FetchFails(t) /\ ev' = Ev("fetch")
    \/ \E t \in BagToSet(fetches) : FetchThrows(t) /\ ev' = Ev("fetch")
    \/ \E tm \in timers : SilentInFlight = 0 /\ TimerFires(tm) /\ ev' = Ev("fetch")
    \/ \E t \in BagToSet(fetches) : PollSucceeds(t) /\ ev' = Ev("fetch")
    \/ \E t \in BagToSet(fetches) : PollFails(t) /\ ev' = Ev("fetch")
    \/ \E t \in BagToSet(fetches) : PollThrows(t) /\ ev' = Ev("fetch")
    \/ \E e \in FrameEdits : HandleStatusChange(e[1], e[2], e[3]) /\ ev' = Ev("edit")
    \/ HandleSaveChanges /\ ev' = Ev("save")
    \/ \E u \in updates : BackendUpdateOk(u) /\ ev' = Ev("save")
    \/ \E u \in updates : BackendUpdateFail(u) /\ ev' = Ev("save")
    \/ SaveReturns /\ ev' = Ev("save")

SpecFrame == InitEdit /\ [][NextFrame]_vars

\* ------------------------------------------------------------------ claims: fetches and the buffer

\* C28: a step of the fetcher or the scheduler (a fetch starting, a fetch
\* ending with rows, with an error or with an exception, a poll timer firing, a
\* poll callback going on) leaves the edit buffer as it is; a step that changes
\* the buffer is a handleStatusChange or the end of a successful save.
C28_FetchLeavesBuffer ==
    [][/\ ev'.op = "fetch" => pendingChanges' = pendingChanges
       /\ pendingChanges' # pendingChanges => ev'.op = "edit" \/ toast'.kind = "saved"]_vars

\* A non-silent fetch has failed with both rows' edits in the buffer.
C28_Witness ==
    /\ ev.op = "fetch"
    /\ error = "Failed to load bookings. Please try again."
    /\ Len(pendingChanges) = 2
    /\ LoudInFlight = 0

\* ------------------------------------------------------------------ claims: the saving flag

LoudSettles ==
    /\ ~ev'.silent
    /\ \/ ev'.op \in {"fetchOk", "fetchError"}
       \/ ev'.op = "fetchThrew" /\ ev'.retryCount = MaxRetries

\* C30: when a non-silent fetch has settled loading and refreshing are both
\* false, and as long as a manual refresh is in flight or waits to be retried
\* refreshing is true.
C30_FlagsFollowFetch ==
    [][/\ LoudSettles => ~loading' /\ ~refreshing'
       /\ \A t \in BagToSet(fetches') : t.manual => refreshing']_vars

====
